---------------------------- MODULE Spec2Model ----------------------------
(***************************************************************************)
(* The streaming client of the market monitoring dashboard:                *)
(*   - the useWebSocket hook (connection lifecycle, reconnect with         *)
(*     backoff, heartbeat, inbound frames into the marketData cache);      *)
(*   - the MarketDataProvider (watchlist, subscribe-on-connect effect,     *)
(*     addToWatchlist / removeFromWatchlist / clearWatchlist).             *)
(*                                                                         *)
(* React state is modelled by its pending value (what the next render will *)
(* see, all queued updates applied in order) and by the values the last    *)
(* render captured in its closures (rendered).  Refs (ws, the reconnect    *)
(* timer handle, reconnectAttempts) change at once.  Browser sockets and   *)
(* timers are the environment.  lastMessage is written and never read by   *)
(* the client: only the re-render its update causes is kept.               *)
(***************************************************************************)
EXTENDS Integers, Sequences, FiniteSets, TLC

VARIABLES
    mounted,              \* the provider is mounted (the mount effect ran, its cleanup did not)
    ctorThrows,           \* environment: new WebSocket(wsUrl) throws in this page
    readyState,           \* readyState of every socket; "NONE" = no such socket (never
                          \* created, or closed and no longer referenced)
    opened,               \* sockets whose open event has fired
    wsCurrent,            \* ws.current: 0 = null, else a socket
    isConnected,          \* useState isConnected (pending value)
    connectionStatus,     \* useState connectionStatus (pending value)
    marketData,           \* useState marketData: symbol -> record (NoData = absent)
    watchlist,            \* useState watchlist (pending value), a list
    rendered,             \* values captured by the closures of the last render
    pendingUpdates,       \* "none" | "primitive" | "object": updates queued since the last render
    timers,               \* pending setTimeout callbacks: set of [id, delay, attempt]
    reconnectTimeoutRef,  \* reconnectTimeoutRef.current: 0 = undefined, else a timer handle
    reconnectAttempts,    \* reconnectAttempts.current
    sent,                 \* the subscribe and unsubscribe frames handed to send() of
                          \* ws.current since it was created, in order, each with the
                          \* call site that sent it; empty once that socket has closed
    pingsSent,            \* the ping frames handed to send() of ws.current since the
                          \* last pong frame it delivered (since it opened, if none)
    lastEnd,              \* history: how the latest connection attempt or session ended
    shutdownFrom,         \* history: what disconnect() found ("none" before it ran)
    attemptAfterShutdown, \* history: connect() created a socket after disconnect() ran
    updateDropped         \* history: a setWatchlist call that would have changed the
                          \* watchlist was made after the unmount, where React drops it

vars == << mounted, ctorThrows, readyState, opened, wsCurrent, isConnected,
           connectionStatus, marketData, watchlist, rendered, pendingUpdates,
           timers, reconnectTimeoutRef, reconnectAttempts, sent, pingsSent,
           lastEnd, shutdownFrom, attemptAfterShutdown, updateDropped >>

socketVars == << readyState, opened, wsCurrent >>
statusVars == << isConnected, connectionStatus >>
timerVars == << timers, reconnectTimeoutRef, reconnectAttempts >>
frameVars == << sent, pingsSent >>
historyVars == << shutdownFrom, attemptAfterShutdown, updateDropped >>

---------------------------------------------------------------------------
(* Bounds of the model *)

MaxLive == 2        \* sockets that exist at the same time
MaxTimers == 2      \* reconnect timers pending at the same time
MaxSent == 2        \* subscribe and unsubscribe frames sent on one connection
MaxPings == 4       \* ping frames sent with no pong in between
MaxWatch == 2       \* length of the watchlist
MaxRequests == 2    \* fetchAnalytics calls of the Analytics page in flight together

(* Program constants *)

maxReconnectAttempts == 5
BaseDelayMs == 1000
MaxDelayMs == 30000
NormalClosure == 1000
GoingAway == 1001
AbnormalClosure == 1006

---------------------------------------------------------------------------
(* Values *)

Symbols == {"AAPL", "MSFT"}

\* the symbol passed on as the caller wrote it: toUpperCase() forgotten
toUpperCase_Identity(s) == s

\* String.prototype.toUpperCase on the tickers of the model
toUpperCase(s) ==
    CASE s = "aapl" -> "AAPL"
      [] s = "msft" -> "MSFT"
      [] OTHER -> s

\* symbols.map(s => s.toUpperCase())
RECURSIVE MapUpper(_)
MapUpper(symbols) ==
    IF symbols = << >> THEN << >>
    ELSE << toUpperCase(Head(symbols)) >> \o MapUpper(Tail(symbols))

\* Array.prototype.includes
includes(list, x) == \E i \in 1..Len(list) : list[i] = x

\* list.filter(symbol => !excluded.includes(symbol))
RECURSIVE filterNotIn(_, _)
filterNotIn(list, excluded) ==
    IF list = << >> THEN << >>
    ELSE IF includes(excluded, Head(list))
         THEN filterNotIn(Tail(list), excluded)
         ELSE << Head(list) >> \o filterNotIn(Tail(list), excluded)

Range(list) == { list[i] : i \in 1..Len(list) }

\* the watchlist the provider starts from, and the arguments callers pass
InitialWatchlists == { << >>, << "AAPL" >>, << "AAPL", "MSFT" >> }
ArgLists == { << "AAPL" >>, << "aapl" >>, << "MSFT" >>, << "aapl", "AAPL" >> }

\* MarketData records (their timestamp tells them apart); NoData = undefined
NoData == [timestamp |-> 0]
Timestamps == {1, 2}
Records == [timestamp : Timestamps]

\* event.data of inbound frames: JSON.parse throws on the one that is not valid
InboundFrames ==
    [valid : {TRUE}, type : {"market_data"}, symbol : Symbols, data : Records]
    \cup [valid : {TRUE}, type : {"market_data"}, symbol : {"AAPL"}, data : {NoData}]
    \cup [valid : {TRUE}, type : {"market_data"}, symbol : {""}, data : {[timestamp |-> 1]}]
    \cup [valid : {TRUE}, type : {"pong", "error", "status"}, symbol : {""}, data : {NoData}]
    \cup [valid : {FALSE}, type : {"garbage"}, symbol : {""}, data : {NoData}]

RECURSIVE Pow2(_)
Pow2(n) == IF n = 0 THEN 1 ELSE 2 * Pow2(n - 1)

Min(a, b) == IF a <= b THEN a ELSE b

\* the delay without Math.min: the cap at 30 s forgotten
reconnectDelay_Uncapped(attempts) == BaseDelayMs * Pow2(attempts)

\* Math.min(1000 * Math.pow(2, reconnectAttempts.current), 30000)
reconnectDelay(attempts) == Min(BaseDelayMs * Pow2(attempts), MaxDelayMs)

Sockets == 1..MaxLive
Live(s) == readyState[s] \in {"CONNECTING", "OPEN"}
FreeSockets(rs) == { s \in Sockets : rs[s] = "NONE" }
FreeTimers == { i \in 1..MaxTimers : \A t \in timers : t.id # i }
Lowest(S) == CHOOSE x \in S : \A y \in S : x <= y

\* a closed socket that ws.current no longer refers to is gone
reclaim(rs, current) ==
    [s \in Sockets |-> IF rs[s] = "CLOSED" /\ s # current THEN "NONE" ELSE rs[s]]

\* ws.current?.readyState === WebSocket.OPEN
currentOpen == wsCurrent # 0 /\ readyState[wsCurrent] = "OPEN"

---------------------------------------------------------------------------
(* React state updates.  A setState call of an unmounted component is      *)
(* dropped.  A call that leaves the state as it is, with nothing queued,   *)
(* schedules no render.                                                    *)

Enqueue(changed) ==
    IF pendingUpdates = "none" /\ ~changed THEN "none"
    ELSE IF pendingUpdates = "object" THEN "object" ELSE "primitive"

\* setConnectionStatus(status) alone: the setIsConnected call forgotten
SetStatus_StatusOnly(conn, status) ==
    IF mounted
    THEN /\ isConnected' = isConnected
         /\ connectionStatus' = status
         /\ pendingUpdates' = Enqueue(status # connectionStatus)
    ELSE UNCHANGED << isConnected, connectionStatus, pendingUpdates >>

\* setIsConnected(conn); setConnectionStatus(status)
SetStatus(conn, status) ==
    IF mounted
    THEN /\ isConnected' = conn
         /\ connectionStatus' = status
         /\ pendingUpdates' = Enqueue(conn # isConnected \/ status # connectionStatus)
    ELSE UNCHANGED << isConnected, connectionStatus, pendingUpdates >>

---------------------------------------------------------------------------
(* sendMessage: the frame goes out only on an OPEN current socket *)

\* sendMessage without the readyState check
sendMessage_NoGuard(log, frame) == Append(log, frame)

\* sendMessage testing only that the socket has not closed: it sends on a
\* socket that is still connecting or already closing
sendMessage_NotClosed(log, frame) ==
    IF wsCurrent # 0 /\ readyState[wsCurrent] # "CLOSED" THEN Append(log, frame) ELSE log

sendMessage(log, frame) == IF currentOpen THEN Append(log, frame) ELSE log

subscribe(log, symbols, caller) ==
    sendMessage(log, [type |-> "subscribe", symbols |-> MapUpper(symbols), caller |-> caller])

unsubscribe(log, symbols, caller) ==
    sendMessage(log, [type |-> "unsubscribe", symbols |-> MapUpper(symbols), caller |-> caller])

---------------------------------------------------------------------------
(* connect(): called by the mount effect and by the reconnect timer.       *)

NoEnd == [kind |-> "none", code |-> 0, attempts |-> 0]

connect ==
    IF currentOpen
    THEN UNCHANGED << socketVars, statusVars, pendingUpdates, frameVars, lastEnd,
                      attemptAfterShutdown >>
    ELSE IF ctorThrows
    THEN /\ SetStatus(isConnected, "error")
         /\ lastEnd' = [kind |-> "ctor", code |-> 0, attempts |-> reconnectAttempts]
         /\ UNCHANGED << socketVars, frameVars, attemptAfterShutdown >>
    ELSE LET rs == reclaim(readyState, 0)
         IN /\ FreeSockets(rs) # {}
            /\ wsCurrent' = Lowest(FreeSockets(rs))
            /\ readyState' = [rs EXCEPT ![wsCurrent'] = "CONNECTING"]
            /\ opened' = opened \ {wsCurrent'}
            /\ SetStatus(isConnected, "connecting")
            /\ lastEnd' = NoEnd
            /\ sent' = << >>
            /\ pingsSent' = 0
            /\ attemptAfterShutdown' = ~mounted


(* The Analytics page (src/unnamed/part_000): its state, fetchAnalytics and the
   responses of the three requests each call awaits with Promise.all. *)

VARIABLES selectedSymbol, indicators, performance, volatility, loading, error,
          requests

analyticsVars == << selectedSymbol, indicators, performance, volatility,
                    loading, error, requests >>

\* The symbols the Symbol select offers (three of the nine of the source).
popularSymbols == {"AAPL", "GOOGL", "MSFT"}

\* The three GET requests of one fetchAnalytics call.
Endpoints == {"indicators", "performance", "volatility"}

\* The state a data hook holds before any response was stored.
Null == "null"

RequestIds == 1..MaxRequests

\* A slot of no call in flight.
NoRequest == [symbol |-> Null, awaiting |-> {}]

\* The calls whose Promise.all has neither resolved nor rejected.
InFlight == {r \in RequestIds : requests[r] # NoRequest}

\* fetchAnalytics as created by the render that holds `symbol`: loading on,
\* error cleared, three requests sent for the symbol.
fetchAnalytics(symbol) ==
    /\ InFlight # RequestIds
    /\ loading' = TRUE
    /\ error' = FALSE
    /\ requests' = [requests EXCEPT ![Lowest(RequestIds \ InFlight)] =
                        [symbol |-> symbol, awaiting |-> Endpoints]]

\* The page after its first render and the effect that follows it.
AnalyticsInit ==
    /\ selectedSymbol = "AAPL"
    /\ indicators = Null
    /\ performance = Null
    /\ volatility = Null
    /\ loading = TRUE
    /\ error = FALSE
    /\ requests = [r \in RequestIds |->
                      IF r = 1 THEN [symbol |-> "AAPL", awaiting |-> Endpoints]
                      ELSE NoRequest]

\* the state after the first render and its mount effect, which calls connect()
Init ==
    /\ mounted = TRUE
    /\ ctorThrows \in BOOLEAN
    /\ readyState = [s \in Sockets |-> IF s = 1 /\ ~ctorThrows THEN "CONNECTING" ELSE "NONE"]
    /\ opened = {}
    /\ wsCurrent = IF ctorThrows THEN 0 ELSE 1
    /\ isConnected = FALSE
    /\ connectionStatus = IF ctorThrows THEN "error" ELSE "connecting"
    /\ marketData = [s \in Symbols |-> NoData]
    /\ watchlist \in InitialWatchlists
    /\ rendered = [isConnected |-> FALSE, connectionStatus |-> "disconnected",
                   watchlist |-> watchlist]
    /\ pendingUpdates = "primitive"
    /\ timers = {}
    /\ reconnectTimeoutRef = 0
    /\ reconnectAttempts = 0
    /\ sent = << >>
    /\ pingsSent = 0
    /\ lastEnd = IF ctorThrows THEN [kind |-> "ctor", code |-> 0, attempts |-> 0] ELSE NoEnd
    /\ shutdownFrom = "none"
    /\ attemptAfterShutdown = FALSE
    /\ updateDropped = FALSE
    /\ AnalyticsInit

---------------------------------------------------------------------------
(* Render: React commits the queued updates; the effects of the provider   *)
(* run.  The subscribe-on-connect effect lists the object returned by      *)
(* useWebSocket() among its dependencies, and that object is new on every  *)
(* render, so the effect runs after every render that is not bailed out.   *)

\* the subscribe-on-connect effect, run with the values of render `view`
subscribeEffect(log, view) ==
    IF view.isConnected /\ Len(view.watchlist) > 0
    THEN subscribe(log, view.watchlist, "effect")
    ELSE log

Render ==
    /\ mounted
    /\ pendingUpdates # "none"
    /\ LET view == [isConnected |-> isConnected,
                    connectionStatus |-> connectionStatus,
                    watchlist |-> watchlist]
           bailout == /\ pendingUpdates = "primitive"
                      /\ view.isConnected = rendered.isConnected
                      /\ view.connectionStatus = rendered.connectionStatus
       IN /\ rendered' = view
          /\ sent' = IF bailout THEN sent ELSE subscribeEffect(sent, view)
          /\ Len(sent') <= MaxSent
    /\ pendingUpdates' = "none"
    /\ UNCHANGED << mounted, ctorThrows, socketVars, statusVars, marketData, watchlist,
                    timerVars, pingsSent, lastEnd, historyVars >>

---------------------------------------------------------------------------
(* Socket events.  The handlers installed by connect() stay installed on   *)
(* a socket for its whole life, whether or not it is still ws.current.     *)

\* ws.onopen starting the new session from an empty cache
WsOnOpen_ClearCache(s) ==
    /\ readyState[s] = "CONNECTING"
    /\ readyState' = [readyState EXCEPT ![s] = "OPEN"]
    /\ opened' = opened \cup {s}
    /\ SetStatus(TRUE, "connected")
    /\ reconnectAttempts' = 0
    /\ marketData' = [x \in Symbols |-> NoData]
    /\ UNCHANGED << mounted, ctorThrows, wsCurrent, watchlist, rendered,
                    timers, reconnectTimeoutRef, frameVars, lastEnd, historyVars >>

\* ws.onopen without the reset of reconnectAttempts.current
WsOnOpen_NoReset(s) ==
    /\ readyState[s] = "CONNECTING"
    /\ readyState' = [readyState EXCEPT ![s] = "OPEN"]
    /\ opened' = opened \cup {s}
    /\ SetStatus(TRUE, "connected")
    /\ UNCHANGED << mounted, ctorThrows, wsCurrent, marketData, watchlist, rendered,
                    timerVars, frameVars, lastEnd, historyVars >>

\* ws.onopen
WsOnOpen(s) ==
    /\ readyState[s] = "CONNECTING"
    /\ readyState' = [readyState EXCEPT ![s] = "OPEN"]
    /\ opened' = opened \cup {s}
    /\ SetStatus(TRUE, "connected")
    /\ reconnectAttempts' = 0
    /\ UNCHANGED << mounted, ctorThrows, wsCurrent, marketData, watchlist, rendered,
                    timers, reconnectTimeoutRef, frameVars, lastEnd, historyVars >>

\* the cache update without the test of message.data: a market_data frame
\* with no data stores undefined under its symbol
applyMarketData_NoDataTest(cache, message) ==
    IF message.type = "market_data" /\ message.symbol # ""
    THEN [cache EXCEPT ![message.symbol] = message.data]
    ELSE cache

\* the cache update keeping the record with the later timestamp
applyMarketData_KeepNewer(cache, message) ==
    IF /\ message.type = "market_data" /\ message.symbol # "" /\ message.data # NoData
       /\ message.data.timestamp >= cache[message.symbol].timestamp
    THEN [cache EXCEPT ![message.symbol] = message.data]
    ELSE cache

\* the cache update of ws.onmessage: setMarketData(prev => ({...prev, [symbol]: data}))
applyMarketData(cache, message) ==
    IF message.type = "market_data" /\ message.symbol # "" /\ message.data # NoData
    THEN [cache EXCEPT ![message.symbol] = message.data]
    ELSE cache

\* ws.onmessage taking an error frame for a failure of the connection:
\* setConnectionStatus('error') on it
WsOnMessage_ErrorFrame(s, frame) ==
    /\ readyState[s] = "OPEN" \/ (readyState[s] = "CLOSING" /\ s \in opened)
    /\ IF frame.valid /\ mounted
       THEN /\ marketData' = applyMarketData(marketData, frame)
            /\ pendingUpdates' = "object"
       ELSE UNCHANGED << marketData, pendingUpdates >>
    /\ pingsSent' = IF frame.valid /\ frame.type = "pong" /\ s = wsCurrent THEN 0 ELSE pingsSent
    /\ connectionStatus' = IF frame.valid /\ mounted /\ frame.type = "error"
                           THEN "error" ELSE connectionStatus
    /\ UNCHANGED << mounted, ctorThrows, socketVars, isConnected, watchlist, rendered,
                    timerVars, sent, lastEnd, historyVars >>

\* ws.onmessage: setLastMessage(message), then the cache update
WsOnMessage(s, frame) ==
    /\ readyState[s] = "OPEN" \/ (readyState[s] = "CLOSING" /\ s \in opened)
    /\ IF frame.valid /\ mounted
       THEN /\ marketData' = applyMarketData(marketData, frame)
            /\ pendingUpdates' = "object"
       ELSE UNCHANGED << marketData, pendingUpdates >>
    /\ pingsSent' = IF frame.valid /\ frame.type = "pong" /\ s = wsCurrent THEN 0 ELSE pingsSent
    /\ UNCHANGED << mounted, ctorThrows, socketVars, statusVars, watchlist, rendered,
                    timerVars, sent, lastEnd, historyVars >>

\* ws.onclose with the counter compared after its increment
\* (++reconnectAttempts.current < maxReconnectAttempts): one retry fewer
WsOnClose_OffByOne(s, code, afterError) ==
    /\ IF s = wsCurrent
       THEN sent' = << >> /\ pingsSent' = 0
       ELSE UNCHANGED frameVars
    /\ IF mounted
       THEN /\ isConnected' = FALSE
            /\ connectionStatus' = "disconnected"
            /\ pendingUpdates' = Enqueue(afterError \/ isConnected
                                         \/ connectionStatus # "disconnected")
       ELSE UNCHANGED << isConnected, connectionStatus, pendingUpdates >>
    /\ lastEnd' = [kind |-> "close", code |-> code, attempts |-> reconnectAttempts]
    /\ IF code # NormalClosure /\ reconnectAttempts + 1 < maxReconnectAttempts
       THEN /\ reconnectAttempts' = reconnectAttempts + 1
            /\ FreeTimers # {}
            /\ reconnectTimeoutRef' = Lowest(FreeTimers)
            /\ timers' = timers \cup
                 { [id |-> reconnectTimeoutRef',
                    delay |-> reconnectDelay(reconnectAttempts'),
                    attempt |-> reconnectAttempts'] }
       ELSE UNCHANGED timerVars

\* ws.onclose with the status of ws.onerror staying after a failure (the
\* error event handled after the close event)
WsOnClose_ErrorLast(s, code, afterError) ==
    /\ IF s = wsCurrent
       THEN sent' = << >> /\ pingsSent' = 0
       ELSE UNCHANGED frameVars
    /\ IF mounted
       THEN /\ isConnected' = FALSE
            /\ connectionStatus' = IF afterError THEN "error" ELSE "disconnected"
            /\ pendingUpdates' = Enqueue(afterError \/ isConnected
                                         \/ connectionStatus # "disconnected")
       ELSE UNCHANGED << isConnected, connectionStatus, pendingUpdates >>
    /\ lastEnd' = [kind |-> "close", code |-> code, attempts |-> reconnectAttempts]
    /\ IF code # NormalClosure /\ reconnectAttempts < maxReconnectAttempts
       THEN /\ reconnectAttempts' = reconnectAttempts + 1
            /\ FreeTimers # {}
            /\ reconnectTimeoutRef' = Lowest(FreeTimers)
            /\ timers' = timers \cup
                 { [id |-> reconnectTimeoutRef',
                    delay |-> reconnectDelay(reconnectAttempts'),
                    attempt |-> reconnectAttempts'] }
       ELSE UNCHANGED timerVars

\* ws.onclose without the limit on the attempts: every abnormal close retries
WsOnClose_NoLimit(s, code, afterError) ==
    /\ IF s = wsCurrent
       THEN sent' = << >> /\ pingsSent' = 0
       ELSE UNCHANGED frameVars
    /\ IF mounted
       THEN /\ isConnected' = FALSE
            /\ connectionStatus' = "disconnected"
            /\ pendingUpdates' = Enqueue(afterError \/ isConnected
                                         \/ connectionStatus # "disconnected")
       ELSE UNCHANGED << isConnected, connectionStatus, pendingUpdates >>
    /\ lastEnd' = [kind |-> "close", code |-> code, attempts |-> reconnectAttempts]
    /\ IF code # NormalClosure
       THEN /\ reconnectAttempts' = reconnectAttempts + 1
            /\ FreeTimers # {}
            /\ reconnectTimeoutRef' = Lowest(FreeTimers)
            /\ timers' = timers \cup
                 { [id |-> reconnectTimeoutRef',
                    delay |-> reconnectDelay(reconnectAttempts'),
                    attempt |-> reconnectAttempts'] }
       ELSE UNCHANGED timerVars

\* ws.onclose (after ws.onerror when the connection failed: both handlers run
\* in one task, onclose last, so its status is the one that stays)
WsOnClose(s, code, afterError) ==
    /\ IF s = wsCurrent
       THEN sent' = << >> /\ pingsSent' = 0
       ELSE UNCHANGED frameVars
    /\ IF mounted
       THEN /\ isConnected' = FALSE
            /\ connectionStatus' = "disconnected"
            /\ pendingUpdates' = Enqueue(afterError \/ isConnected
                                         \/ connectionStatus # "disconnected")
       ELSE UNCHANGED << isConnected, connectionStatus, pendingUpdates >>
    /\ lastEnd' = [kind |-> "close", code |-> code, attempts |-> reconnectAttempts]
    /\ IF code # NormalClosure /\ reconnectAttempts < maxReconnectAttempts
       THEN /\ reconnectAttempts' = reconnectAttempts + 1
            /\ FreeTimers # {}
            /\ reconnectTimeoutRef' = Lowest(FreeTimers)
            /\ timers' = timers \cup
                 { [id |-> reconnectTimeoutRef',
                    delay |-> reconnectDelay(reconnectAttempts'),
                    attempt |-> reconnectAttempts'] }
       ELSE UNCHANGED timerVars

\* the close codes the browser can report for socket s without an error event:
\* the peer closes an open socket, or answers the close frame of close(1000)
CleanCodes(s) ==
    IF readyState[s] = "OPEN" THEN {NormalClosure, GoingAway}
    ELSE IF readyState[s] = "CLOSING" /\ s \in opened THEN {NormalClosure}
    ELSE {}

\* the closing handshake completes: close event only
SocketClosed(s, code) ==
    /\ code \in CleanCodes(s)
    /\ readyState' = reclaim([readyState EXCEPT ![s] = "CLOSED"], wsCurrent)
    /\ WsOnClose(s, code, FALSE)
    /\ UNCHANGED << mounted, ctorThrows, opened, wsCurrent, marketData, watchlist,
                    rendered, historyVars >>

\* the connection fails (attempt refused, transport lost, close() before the
\* handshake ended): error event, then close event with code 1006
SocketFailed(s) ==
    /\ readyState[s] \in {"CONNECTING", "OPEN", "CLOSING"}
    /\ readyState' = reclaim([readyState EXCEPT ![s] = "CLOSED"], wsCurrent)
    /\ WsOnClose(s, AbnormalClosure, TRUE)
    /\ UNCHANGED << mounted, ctorThrows, opened, wsCurrent, marketData, watchlist,
                    rendered, historyVars >>

---------------------------------------------------------------------------
(* Timers.  A reconnect delay is at least 2 s and the heartbeat interval   *)
(* is 30 s, while React renders queued updates within the frame: a timer   *)
(* of a mounted client fires with no render pending.                       *)

Settled == ~mounted \/ pendingUpdates = "none"

\* the reconnect callback under setInterval instead of setTimeout: it stays
\* scheduled after it ran
ReconnectTimerFire_Interval(t) ==
    /\ t \in timers
    /\ Settled
    /\ timers' = timers
    /\ connect
    /\ UNCHANGED << mounted, ctorThrows, marketData, watchlist, rendered,
                    reconnectTimeoutRef, reconnectAttempts, shutdownFrom, updateDropped >>

\* the reconnect timer set by ws.onclose fires
ReconnectTimerFire(t) ==
    /\ t \in timers
    /\ Settled
    /\ timers' = timers \ {t}
    /\ connect
    /\ UNCHANGED << mounted, ctorThrows, marketData, watchlist, rendered,
                    reconnectTimeoutRef, reconnectAttempts, shutdownFrom, updateDropped >>

\* the heartbeat callback without the readyState test: a ping at every tick
HeartbeatTick_NoStateTest ==
    /\ mounted
    /\ Settled
    /\ pingsSent' = pingsSent + 1
    /\ pingsSent' <= MaxPings
    /\ UNCHANGED << mounted, ctorThrows, socketVars, statusVars, marketData, watchlist,
                    rendered, pendingUpdates, timerVars, sent, lastEnd, historyVars >>

\* the heartbeat interval fires
HeartbeatTick ==
    /\ mounted
    /\ Settled
    /\ pingsSent' = IF currentOpen THEN pingsSent + 1 ELSE pingsSent
    /\ pingsSent' <= MaxPings
    /\ UNCHANGED << mounted, ctorThrows, socketVars, statusVars, marketData, watchlist,
                    rendered, pendingUpdates, timerVars, sent, lastEnd, historyVars >>

---------------------------------------------------------------------------
(* disconnect(): the cleanup of the mount effect (shutdown).  React        *)
(* discards the state of the unmounted component: updates not yet rendered *)
(* are lost, and so is the cache.                                          *)

\* WebSocket.close(): a socket that is connecting or open starts closing
closeSocket(rs, s) ==
    IF s # 0 /\ rs[s] \in {"CONNECTING", "OPEN"} THEN [rs EXCEPT ![s] = "CLOSING"] ELSE rs

\* clearTimeout(handle)
clearTimeout(ts, handle) == { t \in ts : t.id # handle }

\* disconnect() without the clearTimeout of the pending reconnect
disconnect_NoClearTimeout ==
    /\ mounted
    /\ timers' = timers
    /\ readyState' = reclaim(closeSocket(readyState, wsCurrent), 0)
    /\ wsCurrent' = 0
    /\ isConnected' = FALSE
    /\ connectionStatus' = "disconnected"
    /\ mounted' = FALSE
    /\ pendingUpdates' = "none"
    /\ watchlist' = rendered.watchlist
    /\ marketData' = [s \in Symbols |-> NoData]
    /\ shutdownFrom' =
         IF currentOpen THEN "connected"
         ELSE IF wsCurrent # 0 /\ readyState[wsCurrent] = "CONNECTING" THEN "connecting"
         ELSE IF timers # {} THEN "backoff"
         ELSE "idle"
    /\ sent' = << >>
    /\ pingsSent' = 0
    /\ UNCHANGED << ctorThrows, opened, rendered, reconnectTimeoutRef, reconnectAttempts,
                    lastEnd, attemptAfterShutdown, updateDropped >>

disconnect ==
    /\ mounted
    /\ timers' = IF reconnectTimeoutRef # 0
                 THEN clearTimeout(timers, reconnectTimeoutRef) ELSE timers
    /\ readyState' = reclaim(closeSocket(readyState, wsCurrent), 0)
    /\ wsCurrent' = 0
    /\ isConnected' = FALSE
    /\ connectionStatus' = "disconnected"
    /\ mounted' = FALSE
    /\ pendingUpdates' = "none"
    /\ watchlist' = rendered.watchlist
    /\ marketData' = [s \in Symbols |-> NoData]
    /\ shutdownFrom' =
         IF currentOpen THEN "connected"
         ELSE IF wsCurrent # 0 /\ readyState[wsCurrent] = "CONNECTING" THEN "connecting"
         ELSE IF timers # {} THEN "backoff"
         ELSE "idle"
    /\ sent' = << >>
    /\ pingsSent' = 0
    /\ UNCHANGED << ctorThrows, opened, rendered, reconnectTimeoutRef, reconnectAttempts,
                    lastEnd, attemptAfterShutdown, updateDropped >>

---------------------------------------------------------------------------
(* The watchlist operations of the provider.  Each reads watchlist and     *)
(* webSocket.isConnected from the closure of the last render.  A caller    *)
(* that kept the context value can still call them after the unmount: the  *)
(* closures are those of the last render, setWatchlist is dropped, and      *)
(* sendMessage still reads ws.current.                                     *)

\* setWatchlist(next), next computed from the pending state
setWatchlist(next) ==
    IF mounted
    THEN /\ watchlist' = next
         /\ pendingUpdates' = "object"
         /\ UNCHANGED updateDropped
    ELSE /\ UNCHANGED << watchlist, pendingUpdates >>
         /\ updateDropped' = (updateDropped \/ next # watchlist)

addToWatchlist(symbols) ==
    /\ LET upperSymbols == MapUpper(symbols)
           newSymbols == filterNotIn(upperSymbols, rendered.watchlist)
       IN IF Len(newSymbols) > 0
          THEN /\ setWatchlist(watchlist \o newSymbols)
               /\ Len(watchlist') <= MaxWatch
               /\ sent' = IF rendered.isConnected
                          THEN subscribe(sent, newSymbols, "add") ELSE sent
               /\ Len(sent') <= MaxSent
          ELSE UNCHANGED << watchlist, pendingUpdates, sent, updateDropped >>
    /\ UNCHANGED << mounted, ctorThrows, socketVars, statusVars, marketData, rendered,
                    timerVars, pingsSent, lastEnd, shutdownFrom, attemptAfterShutdown >>

removeFromWatchlist(symbols) ==
    /\ LET upperSymbols == MapUpper(symbols)
       IN /\ setWatchlist(filterNotIn(watchlist, upperSymbols))
          /\ sent' = IF rendered.isConnected
                     THEN unsubscribe(sent, upperSymbols, "remove") ELSE sent
    /\ Len(sent') <= MaxSent
    /\ UNCHANGED << mounted, ctorThrows, socketVars, statusVars, marketData, rendered,
                    timerVars, pingsSent, lastEnd, shutdownFrom, attemptAfterShutdown >>

clearWatchlist ==
    /\ sent' = IF rendered.isConnected
               THEN unsubscribe(sent, rendered.watchlist, "clear") ELSE sent
    /\ Len(sent') <= MaxSent
    /\ setWatchlist(<< >>)
    /\ UNCHANGED << mounted, ctorThrows, socketVars, statusVars, marketData, rendered,
                    timerVars, pingsSent, lastEnd, shutdownFrom, attemptAfterShutdown >>

---------------------------------------------------------------------------

(* The Analytics page: what the user does and how the requests end. *)

\* The Symbol select changes: the new symbol is rendered and the effect on
\* selectedSymbol calls the fetchAnalytics of that render.
SelectSymbol(symbol) ==
    /\ symbol # selectedSymbol
    /\ selectedSymbol' = symbol
    /\ fetchAnalytics(symbol)
    /\ UNCHANGED << indicators, performance, volatility >>

\* The Analyze button, disabled while loading is true.
Analyze ==
    /\ ~loading
    /\ fetchAnalytics(selectedSymbol)
    /\ UNCHANGED << selectedSymbol, indicators, performance, volatility >>

\* One GET of call r succeeds. When it is the last of the three, Promise.all
\* resolves: the three results are stored and finally clears loading.
ResponseOk(r, endpoint) ==
    /\ endpoint \in requests[r].awaiting
    /\ IF requests[r].awaiting = {endpoint}
       THEN /\ indicators' = requests[r].symbol
            /\ performance' = requests[r].symbol
            /\ volatility' = requests[r].symbol
            /\ loading' = FALSE
            /\ requests' = [requests EXCEPT ![r] = NoRequest]
       ELSE /\ requests' = [requests EXCEPT ![r].awaiting = @ \ {endpoint}]
            /\ UNCHANGED << indicators, performance, volatility, loading >>
    /\ UNCHANGED << selectedSymbol, error >>

\* One GET of call r fails: Promise.all rejects at once, catch sets the error,
\* finally clears loading; what the other two return is ignored.
ResponseFailed(r, endpoint) ==
    /\ endpoint \in requests[r].awaiting
    /\ error' = TRUE
    /\ loading' = FALSE
    /\ requests' = [requests EXCEPT ![r] = NoRequest]
    /\ UNCHANGED << selectedSymbol, indicators, performance, volatility >>

AnalyticsNext ==
    \/ \E symbol \in popularSymbols : SelectSymbol(symbol) /\ UNCHANGED vars
    \/ Analyze /\ UNCHANGED vars
    \/ \E r \in RequestIds, endpoint \in Endpoints : ResponseOk(r, endpoint) /\ UNCHANGED vars
    \/ \E r \in RequestIds, endpoint \in Endpoints : ResponseFailed(r, endpoint) /\ UNCHANGED vars

\* The Analytics page alone, beside a market data client that takes no step.
AnalyticsSpec == Init /\ [][AnalyticsNext]_<< vars, analyticsVars >>

Next ==
    \/ Render /\ UNCHANGED analyticsVars
    \/ \E s \in Sockets : WsOnOpen(s) /\ UNCHANGED analyticsVars
    \/ \E s \in Sockets, frame \in InboundFrames : WsOnMessage(s, frame) /\ UNCHANGED analyticsVars
    \/ \E s \in Sockets, code \in {NormalClosure, GoingAway} : SocketClosed(s, code) /\ UNCHANGED analyticsVars
    \/ \E s \in Sockets : SocketFailed(s) /\ UNCHANGED analyticsVars
    \/ \E t \in timers : ReconnectTimerFire(t) /\ UNCHANGED analyticsVars
    \/ HeartbeatTick /\ UNCHANGED analyticsVars
    \/ disconnect /\ UNCHANGED analyticsVars
    \/ \E symbols \in ArgLists : addToWatchlist(symbols) /\ UNCHANGED analyticsVars
    \/ \E symbols \in ArgLists : removeFromWatchlist(symbols) /\ UNCHANGED analyticsVars
    \/ clearWatchlist /\ UNCHANGED analyticsVars

Spec == Init /\ [][Next]_<< vars, analyticsVars >>

---------------------------------------------------------------------------
(* Properties *)

Indices(log) == 1..Len(log)

\* the symbols the peer has been told to stream by the frames of log
RECURSIVE PeerSubscribed(_)
PeerSubscribed(log) ==
    IF log = << >> THEN {}
    ELSE LET before == PeerSubscribed(SubSeq(log, 1, Len(log) - 1))
             last == log[Len(log)]
         IN IF last.type = "subscribe" THEN before \cup Range(last.symbols)
            ELSE before \ Range(last.symbols)

\* connected, and every queued update rendered
ConnectedAndSettled ==
    mounted /\ currentOpen /\ rendered.isConnected /\ pendingUpdates = "none"

\* C1: on a connection, the subscribe-on-connect effect sends the desired set
\* once: it does not send the same list again with no watchlist operation in
\* between (a watchlist operation of a connected client leaves a frame), and
\* once connected and settled the list it sent last is the desired set.
C1_ResubscribeOnce ==
    /\ \A i \in Indices(sent) :
         i < Len(sent) /\ sent[i].caller = "effect" => sent[i + 1] # sent[i]
    /\ ConnectedAndSettled /\ Len(watchlist) > 0 =>
         \E i \in Indices(sent) :
            /\ sent[i] = [type |-> "subscribe", symbols |-> watchlist, caller |-> "effect"]
            /\ \A j \in Indices(sent) : j > i => sent[j].caller # "effect"

\* C2: a symbol that addToWatchlist subscribed is carried by no second
\* subscribe frame of the connection, unless it was unsubscribed in between.
C2_SubscribedOnce ==
    \A i, j \in Indices(sent) :
        /\ i < j
        /\ sent[i].type = "subscribe" /\ sent[i].caller = "add"
        /\ sent[j].type = "subscribe"
        => \A x \in Range(sent[i].symbols) \cap Range(sent[j].symbols) :
              \E k \in Indices(sent) :
                 i < k /\ k < j /\ sent[k].type = "unsubscribe" /\ x \in Range(sent[k].symbols)

\* C3: connected and settled, the peer has been told to stream exactly the
\* symbols of the watchlist.
C3_PeerConverges ==
    ConnectedAndSettled => PeerSubscribed(sent) = Range(watchlist)

C5_NoAttemptAfterShutdownConnected ==
    shutdownFrom = "connected" => ~attemptAfterShutdown

\* C6: after disconnect() found the client not connected (connecting, waiting
\* in backoff, or idle), connect() creates no socket.
C6_NoAttemptAfterShutdownElsewhere ==
    shutdownFrom \in {"connecting", "backoff", "idle"} => ~attemptAfterShutdown

\* C7: at most one socket is connecting or open.
C7_OneSession == Cardinality({ s \in Sockets : Live(s) }) <= 1

\* a socket created by a reconnect timer that fired after disconnect(), the
\* second consecutive reconnect at least, is connecting
C7_Witness ==
    /\ attemptAfterShutdown /\ reconnectAttempts >= 2
    /\ \E s \in Sockets : readyState[s] = "CONNECTING"

\* C8: the timestamp the cache holds for a symbol never decreases.
C8_TimestampMonotone ==
    [][mounted' => \A s \in Symbols :
                     marketData'[s].timestamp >= marketData[s].timestamp]_vars

\* C9 as claimed: the k-th consecutive reconnect waits min(1 s * 2^(k-1), 30 s).
C9_DelayFromOneSecond ==
    \A t \in timers : t.delay = Min(1000 * Pow2(t.attempt - 1), 30000)

\* C9 as amended: the k-th consecutive reconnect waits 2 s, 4 s, 8 s, 16 s and
\* 30 s for k = 1..5, never more than 30 s, and there is no sixth.
C9_DelayDoubling ==
    \A t \in timers :
        /\ t.attempt \in 1..5
        /\ t.delay = << 2000, 4000, 8000, 16000, 30000 >>[t.attempt]
        /\ t.delay <= 30000

\* the capped delay of the fifth reconnect
C9_Witness == \E t \in timers : t.attempt = 5 /\ t.delay = 30000

\* C10: a session whose oldest unanswered ping is older than pongTimeout
\* (60 s, two heartbeat intervals of 30 s) is no longer open: with four pings
\* unanswered, the first of them is three intervals old.
C10_KeepaliveTimeout ==
    ~(currentOpen /\ pingsSent >= 4)

\* C11: the watchlist never holds the same symbol twice.
C11_NoDuplicates ==
    \A i, j \in Indices(watchlist) : i # j => watchlist[i] # watchlist[j]

\* C12: addToWatchlist(["aapl"]) and addToWatchlist(["AAPL"]) are the same
\* operation: every step of one is a step of the other (same watchlist, same
\* frames), from an empty watchlist of a mounted client it leaves the single
\* symbol "AAPL", and no frame carries a symbol in lower case.
C12_CaseNormalized ==
    /\ [](\A i \in Indices(sent) : \A x \in Range(sent[i].symbols) :
             x \notin {"aapl", "msft"})
    /\ [][/\ addToWatchlist(<< "aapl" >>) <=> addToWatchlist(<< "AAPL" >>)
          /\ mounted /\ addToWatchlist(<< "aapl" >>)
                /\ watchlist = << >> /\ rendered.watchlist = << >>
                => watchlist' = << "AAPL" >>]_vars

\* "AAPL", added to an empty watchlist of a connected client, is the one
\* symbol of the watchlist and of the frame the call sent
C12_Witness ==
    /\ watchlist = << "AAPL" >> /\ rendered.watchlist = << >>
    /\ sent = << [type |-> "subscribe", symbols |-> << "AAPL" >>, caller |-> "add"] >>

\* C13: while the client is mounted, a step that changes the connection (a
\* socket's readyState, ws.current, the reconnect timers, the attempt counter
\* or the connection status) leaves the watchlist and every cached record as
\* they were.
C13_SurvivesReconnect ==
    [][mounted' /\ << readyState, wsCurrent, timers, reconnectAttempts,
                      isConnected, connectionStatus >>'
                   # << readyState, wsCurrent, timers, reconnectAttempts,
                        isConnected, connectionStatus >>
         => watchlist' = watchlist /\ marketData' = marketData]_vars

\* the socket has opened again (the open is not rendered yet and nothing
\* arrived on it): the record cached by an earlier session and the watchlist
\* are still there
C13_Witness ==
    /\ mounted /\ currentOpen /\ ~rendered.isConnected /\ pendingUpdates = "primitive"
    /\ marketData["AAPL"] # NoData /\ Len(watchlist) > 0

\* C14: after disconnect(), a watchlist operation that changes the desired
\* set is not lost, and no subscribe or unsubscribe frame goes out.
C14_InertAfterShutdown ==
    ~mounted => sent = << >> /\ ~updateDropped

\* a socket's open event; the close of a socket with a code other than 1000
OpenStep == \E s \in Sockets : WsOnOpen(s)
AbnormalCloseStep == \E s \in Sockets : SocketFailed(s) \/ SocketClosed(s, GoingAway)

C16_OfflineChangeResynced ==
    /\ [](ConnectedAndSettled /\ Len(watchlist) > 0 =>
            \E i \in Indices(sent) :
               /\ sent[i].type = "subscribe" /\ sent[i].caller = "effect"
               /\ sent[i].symbols = watchlist
               /\ \A j \in Indices(sent) : j > i => sent[j].caller # "effect")
    /\ [][/\ mounted /\ ~currentOpen
          /\ \E symbols \in ArgLists :
                addToWatchlist(symbols) \/ removeFromWatchlist(symbols)
          => UNCHANGED << frameVars, socketVars, statusVars, marketData, timerVars >>]_vars

\* the watchlist was changed to one no client starts from with no frame sent
\* for the change: the one frame of the connection is the effect's subscribe
\* with the whole watchlist
C16_Witness ==
    /\ ConnectedAndSettled /\ watchlist = << "MSFT" >>
    /\ sent = << [type |-> "subscribe", symbols |-> << "MSFT" >>, caller |-> "effect"] >>

\* C17: the subscribe frame addToWatchlist sent for the new symbols is
\* followed by no subscribe frame of the effect, which would carry the
\* symbols desired before the call as well.
C17_OnlyNewSymbolsSent ==
    \A i \in Indices(sent) :
        i < Len(sent) /\ sent[i].caller = "add"
        => ~(sent[i + 1].type = "subscribe" /\ sent[i + 1].caller = "effect")

\* C18: removeFromWatchlist of a connected, mounted client takes the symbols
\* out of the watchlist and sends one unsubscribe frame that carries the
\* symbols it removed; when the watchlist holds none of them it changes
\* nothing and sends nothing.
C18_RemoveUnsubscribes ==
    [][\A symbols \in ArgLists :
          mounted /\ currentOpen /\ rendered.isConnected /\ removeFromWatchlist(symbols)
          => LET removed == Range(MapUpper(symbols)) \cap Range(watchlist)
             IN IF removed = {}
                THEN UNCHANGED << watchlist, sent, pendingUpdates >>
                ELSE /\ Range(watchlist') = Range(watchlist) \ removed
                     /\ Len(sent') = Len(sent) + 1
                     /\ sent'[Len(sent')].type = "unsubscribe"
                     /\ Range(sent'[Len(sent')].symbols) = removed]_vars

\* the frames ws.onmessage has no use for: not parseable, of a type it does
\* not know, or an error frame
DiscardedFrames == { f \in InboundFrames : ~f.valid \/ f.type \in {"error", "status"} }

\* C19: on an open socket, the handling of a frame that is malformed, of an
\* unknown type or an error frame leaves every socket, ws.current, the
\* connection status, the timers, the attempt counter, the cache and the
\* frames sent as they were: the socket stays open for the frames after it.
C19_BadFrameDiscarded ==
    \A s \in Sockets, f \in DiscardedFrames :
        readyState[s] = "OPEN"
        => ENABLED (/\ WsOnMessage(s, f)
                    /\ UNCHANGED << socketVars, statusVars, timerVars, marketData,
                                    frameVars, watchlist >>)

\* an update is queued on a connected client with nothing changed in the
\* watchlist, the cache or the frames sent: a frame that is not market data
\* was received, and the socket is still open
C19_Witness ==
    /\ mounted /\ currentOpen /\ isConnected /\ connectionStatus = "connected"
    /\ rendered.isConnected /\ pendingUpdates = "object"
    /\ rendered.watchlist = watchlist
    /\ marketData = [x \in Symbols |-> NoData]
    /\ sent = << [type |-> "subscribe", symbols |-> watchlist, caller |-> "effect"] >>

\* C20: on an open socket of a mounted client, the handling of a market_data
\* frame that has a symbol and data leaves the cache with that record under
\* that symbol and every other entry as it was; the handling of any other
\* frame (pong, error, unknown type, not parseable, market_data with no
\* symbol or no data) leaves the whole cache as it was.
C20_RoutedToSymbol ==
    \A s \in Sockets, f \in InboundFrames :
        mounted /\ readyState[s] = "OPEN"
        => ENABLED (/\ WsOnMessage(s, f)
                    /\ \A x \in Symbols :
                          marketData'[x] =
                             IF /\ f.valid /\ f.type = "market_data"
                                /\ f.symbol = x /\ f.data # NoData
                             THEN f.data
                             ELSE marketData[x])

\* a market_data frame for "AAPL" has been applied and not rendered yet: its
\* record is under "AAPL" and "MSFT" has none
C20_Witness ==
    /\ mounted /\ currentOpen /\ pendingUpdates = "object"
    /\ marketData["AAPL"] = [timestamp |-> 2] /\ marketData["MSFT"] = NoData

\* C21: in a mounted client, every market_data frame with a symbol and data
\* leaves its record in the cache under its symbol, whatever the cache held,
\* and an entry of the cache changes only by such a frame for its symbol, to
\* the record of that frame: each entry is the record of the last frame that
\* arrived for its symbol.
C21_LastWriterWins ==
    [][mounted /\ mounted' =>
         /\ \A s \in Sockets, f \in InboundFrames :
               /\ WsOnMessage(s, f)
               /\ f.valid /\ f.type = "market_data" /\ f.symbol \in Symbols
               /\ f.data # NoData
               => marketData'[f.symbol] = f.data
         /\ \A x \in Symbols :
               marketData'[x] # marketData[x]
               => \E s \in Sockets, f \in InboundFrames :
                     /\ WsOnMessage(s, f)
                     /\ f.valid /\ f.type = "market_data" /\ f.symbol = x
                     /\ f.data = marketData'[x]]_vars

\* frames for both symbols have arrived; the record of "AAPL" is the older
\* of the two records of the model
C21_Witness ==
    /\ mounted /\ currentOpen
    /\ marketData["AAPL"] = [timestamp |-> 1] /\ marketData["MSFT"] = [timestamp |-> 2]

C23_PingWhileConnected ==
    /\ [](mounted /\ Settled /\ pingsSent < MaxPings => ENABLED HeartbeatTick)
    /\ [][HeartbeatTick
            => pingsSent' = IF currentOpen THEN pingsSent + 1 ELSE pingsSent]_vars

\* a ping has been sent on the socket of a reconnect (the timer handle is
\* set by the close that scheduled it)
C23_Witness ==
    mounted /\ currentOpen /\ pingsSent >= 1 /\ reconnectTimeoutRef # 0

\* C24: frames are sent on an open ws.current only: a step from a state where
\* ws.current is null or not open adds no subscribe, unsubscribe or ping
\* frame, and frames are on record only while ws.current is open.
C24_SendOnlyWhenOpen ==
    /\ [](sent # << >> \/ pingsSent > 0 => currentOpen)
    /\ [][~currentOpen => Len(sent') <= Len(sent) /\ pingsSent' <= pingsSent]_vars

\* addToWatchlist ran with isConnected true in its closure after the socket
\* had closed: the watchlist grew and sendMessage sent nothing
C24_Witness ==
    /\ mounted /\ rendered.isConnected /\ ~currentOpen
    /\ Len(watchlist) > Len(rendered.watchlist) /\ sent = << >>

\* a mounted client whose latest close found maxReconnectAttempts attempts
\* made: no timer, no socket connecting or open, status disconnected
GivenUp ==
    /\ mounted /\ lastEnd.kind = "close" /\ lastEnd.attempts = maxReconnectAttempts
    /\ timers = {} /\ \A s \in Sockets : ~Live(s)
    /\ ~isConnected /\ connectionStatus = "disconnected"

\* C25: the attempt counter stays in 0..maxReconnectAttempts; the close that
\* finds maxReconnectAttempts attempts made schedules no reconnect, and the
\* client stays as that close left it, disconnected with no timer and no
\* socket, for as long as it is mounted.
C25_GivesUpAfterMax ==
    /\ [](reconnectAttempts \in 0..maxReconnectAttempts)
    /\ [](mounted /\ lastEnd.kind = "close" /\ lastEnd.attempts = maxReconnectAttempts
            => GivenUp)
    /\ [][GivenUp /\ mounted' => GivenUp']_vars

\* the client has given up and its last render shows it disconnected
C25_Witness ==
    GivenUp /\ pendingUpdates = "none" /\ rendered.connectionStatus = "disconnected"

\* C26: at most one reconnect timer is pending, reconnectTimeoutRef is its
\* handle, and disconnect() leaves no timer pending.
C26_OneTimerUnderHandle ==
    /\ [](Cardinality(timers) <= 1 /\ \A t \in timers : t.id = reconnectTimeoutRef)
    /\ [][disconnect => timers' = {}]_vars

\* disconnect() ran while the client waited in backoff: the timer is gone
C26_Witness ==
    ~mounted /\ shutdownFrom = "backoff" /\ timers = {} /\ reconnectTimeoutRef # 0

C28_StaleSocketIgnored ==
    /\ [](connectionStatus = "connected" <=> currentOpen)
    /\ [][\A s \in Sockets :
            /\ s # wsCurrent
            /\ \/ WsOnOpen(s)
               \/ \E f \in InboundFrames : WsOnMessage(s, f)
               \/ \E code \in {NormalClosure, GoingAway} : SocketClosed(s, code)
               \/ SocketFailed(s)
            => UNCHANGED << isConnected, connectionStatus, marketData, timerVars >>]_vars

\* C29: the cache holds a record only for a symbol of the current watchlist:
\* a market_data frame for another symbol is not stored, and
\* removeFromWatchlist and clearWatchlist drop the records of the symbols
\* they remove.
C29_CacheWithinWatchlist ==
    \A sym \in Symbols : marketData[sym] # NoData => includes(watchlist, sym)

\* C30: on the Analytics page loading is true exactly while a fetchAnalytics
\* call is in flight, and once none is in flight the indicators, performance
\* and volatility data shown are those of the selected symbol, whatever the
\* order in which the responses of overlapping calls succeed or fail.
C30_ShownDataIsSelected ==
    /\ loading <=> InFlight # {}
    /\ InFlight = {} =>
           \A shown \in {indicators, performance, volatility} :
               shown # Null => shown = selectedSymbol

=============================================================================
